---- MODULE Spec2Model ----
(***************************************************************************)
(* Model of detector.py (Detekt): main() drives the winpmem service        *)
(* lifecycle around scan(), which walks the Yara match stream, filters     *)
(* and de-duplicates the hits and puts them on the result queue.           *)
(***************************************************************************)
EXTENDS Integers, Sequences, FiniteSets, TLC

\* ---------------------------------------------------------------- bounds
\* Longest match stream yara.calculate() yields in the model.
MaxLen == 3
\* Process ids seen in the memory image are 1..MaxPid.
MaxPid == 3

\* ------------------------------------------------------- program values
\* os.getpid(): the scanner's own process id.
SelfPid == 1

\* The error messages main() posts (module messages).
UNSUPPORTED_WINDOWS == "UNSUPPORTED_WINDOWS"
NO_DRIVER == "NO_DRIVER"
SERVICE_NO_START == "SERVICE_NO_START"
SCAN_FAILED == "SCAN_FAILED"

\* Exception classes.  main() catches DetectorError only; anything else an
\* external call raises leaves main() through the caller.
DetectorError == "DetectorError"
OtherError == "OtherError"
\* What a failing Service method raises.
ServiceError == DetectorError
\* What a failing call into Volatility (load_as, YaraScan.calculate) may raise.
EngineErrors == {DetectorError, OtherError}

\* Inputs: results of cfg.get_profile_name() and cfg.get_driver_path().
Profiles == {"", "Win7SP1x86"}
Drivers == {"", "winpmem.sys"}

\* Inputs: the match stream.  o is None, an _EPROCESS or another structure.
Rules == {"r1", "r2"}
ObjNames == {"None", "_EPROCESS", "_ETHREAD"}
Pids == 1..MaxPid
Ppids == {0, 4}
\* o.UniqueProcessId / o.InheritedFromUniqueProcessId are Volatility objects
\* wrapping a number; int() reads the number out.
PidObj(n) == [v |-> n]
ToInt(obj) == obj.v
Records ==
  [obj_name : {"_EPROCESS"}, UniqueProcessId : {PidObj(n) : n \in Pids},
   InheritedFromUniqueProcessId : {PidObj(n) : n \in Ppids}, rule : Rules]
  \cup
  [obj_name : {"None", "_ETHREAD"}, UniqueProcessId : {PidObj(0)},
   InheritedFromUniqueProcessId : {PidObj(0)}, rule : Rules]

\* hit.meta.get('detection') / hit.meta.get('description') of a rule.
MetaGet(rule, key) == IF rule = "r1" THEN key \o ":r1" ELSE "None"

VARIABLES
  pc,             \* position in main(): the next step to run
  cfg,            \* Config: profile and driver
  sigCwd,         \* <cwd>/signatures.yar exists
  sigPkg,         \* the packaged rules/signatures.yar exists
  serviceOps,     \* Service methods invoked so far, with their outcome
  scanCalls,      \* number of times scan() was invoked
  scanState,      \* where scan() is: "none","image","loop","returned","raised"
  scanRaisedAt,   \* "none","signature","image","iteration"
  scanExc,        \* the exception scan() raised, or "none"
  scanRet,        \* scan()'s return value, "none" before it returns
  matched,        \* scan()'s list of matched rules
  consumed,       \* records taken from the match stream so far
  lastStep,       \* branch the last loop iteration took
  lastRec,        \* the record the last loop iteration took, if any
  firstEligible,  \* per rule, the first reportable record of the stream
  putAtRaise,     \* results put by the time scan() raised
  queue_results,  \* the result queue's content
  queue_errors,   \* the error queue's content
  resultsPut,     \* every message ever put on the result queue
  errorsPut       \* every message ever put on the error queue

vars == <<pc, cfg, sigCwd, sigPkg, serviceOps, scanCalls, scanState,
          scanRaisedAt, scanExc, scanRet, matched, consumed, lastStep,
          lastRec, firstEligible, putAtRaise, queue_results, queue_errors, resultsPut, errorsPut>>

scanVars == <<scanCalls, scanState, scanRaisedAt, scanExc, scanRet, matched,
              consumed, lastStep, lastRec, firstEligible, putAtRaise>>
resultVars == <<queue_results, resultsPut>>
errorVars == <<queue_errors, errorsPut>>
envVars == <<sigCwd, sigPkg>>

Init ==
  /\ pc = "get_profile"
  /\ cfg = [profile |-> "unset", driver |-> "unset"]
  /\ sigCwd \in BOOLEAN
  /\ sigPkg \in BOOLEAN
  /\ serviceOps = <<>>
  /\ scanCalls = 0
  /\ scanState = "none"
  /\ scanRaisedAt = "none"
  /\ scanExc = "none"
  /\ scanRet = "none"
  /\ matched = <<>>
  /\ consumed = 0
  /\ lastStep = "none"
  /\ lastRec = {}
  /\ firstEligible = [r \in Rules |-> {}]
  /\ putAtRaise = <<>>
  /\ queue_results = <<>>
  /\ queue_errors = <<>>
  /\ resultsPut = <<>>
  /\ errorsPut = <<>>

\* queue_errors.put(msg)
PutError(msg) ==
  /\ queue_errors' = Append(queue_errors, msg)
  /\ errorsPut' = Append(errorsPut, msg)

\* queue_results.put(msg)
PutResult(msg) ==
  /\ queue_results' = Append(queue_results, msg)
  /\ resultsPut' = Append(resultsPut, msg)

\* One invocation of a Service method and whether it returned normally.
Invoke(op, ok) == serviceOps' = Append(serviceOps, [op |-> op, ok |-> ok])

\* ------------------------------------------------------------------ main
\* GetProfileName without the return after posting UNSUPPORTED_WINDOWS.
GetProfileName_NoReturn ==
  /\ pc = "get_profile"
  /\ \E p \in Profiles :
       /\ cfg' = [cfg EXCEPT !.profile = p]
       /\ IF p = ""
            THEN PutError(UNSUPPORTED_WINDOWS)
            ELSE UNCHANGED errorVars
       /\ pc' = "get_driver"
  /\ UNCHANGED <<envVars, serviceOps, scanVars, resultVars>>

\* cfg.get_profile_name(); if not cfg.profile: post and return.
GetProfileName ==
  /\ pc = "get_profile"
  /\ \E p \in Profiles :
       /\ cfg' = [cfg EXCEPT !.profile = p]
       /\ IF p = ""
            THEN /\ PutError(UNSUPPORTED_WINDOWS)
                 /\ pc' = "done"
            ELSE /\ UNCHANGED errorVars
                 /\ pc' = "get_driver"
  /\ UNCHANGED <<envVars, serviceOps, scanVars, resultVars>>

\* if not cfg.get_driver_path(): post and return.
GetDriverPath ==
  /\ pc = "get_driver"
  /\ \E d \in Drivers :
       /\ cfg' = [cfg EXCEPT !.driver = d]
       /\ IF d = ""
            THEN /\ PutError(NO_DRIVER)
                 /\ pc' = "done"
            ELSE /\ UNCHANGED errorVars
                 /\ pc' = "create"
  /\ UNCHANGED <<envVars, serviceOps, scanVars, resultVars>>

\* StartHandler without the return: main() goes on to the scan.
StartHandler_NoReturn(exc) ==
  IF exc = DetectorError
    THEN /\ PutError(SERVICE_NO_START)
         /\ pc' = "scan"
    ELSE /\ UNCHANGED errorVars
         /\ pc' = "aborted"

\* What main() does with an exception raised inside the service-start try.
StartHandler(exc) ==
  IF exc = DetectorError
    THEN /\ PutError(SERVICE_NO_START)
         /\ pc' = "done"
    ELSE /\ UNCHANGED errorVars
         /\ pc' = "aborted"

\* ServiceCreate with the failure of create() swallowed: start() still runs.
ServiceCreate_Swallow ==
  /\ pc = "create"
  /\ \E ok \in BOOLEAN :
       /\ Invoke("create", ok)
       /\ pc' = "start"
       /\ UNCHANGED errorVars
  /\ UNCHANGED <<cfg, envVars, scanVars, resultVars>>

\* service = Service(...); service.create()
ServiceCreate ==
  /\ pc = "create"
  /\ \E ok \in BOOLEAN :
       /\ Invoke("create", ok)
       /\ IF ok
            THEN /\ pc' = "start"
                 /\ UNCHANGED errorVars
            ELSE StartHandler(ServiceError)
  /\ UNCHANGED <<cfg, envVars, scanVars, resultVars>>

\* ServiceStart with the failure of start() swallowed: the scan still runs.
ServiceStart_IgnoresFailure ==
  /\ pc = "start"
  /\ \E ok \in BOOLEAN :
       /\ Invoke("start", ok)
       /\ pc' = "scan"
       /\ UNCHANGED errorVars
  /\ UNCHANGED <<cfg, envVars, scanVars, resultVars>>

\* service.start()
ServiceStart ==
  /\ pc = "start"
  /\ \E ok \in BOOLEAN :
       /\ Invoke("start", ok)
       /\ IF ok
            THEN /\ pc' = "scan"
                 /\ UNCHANGED errorVars
            ELSE StartHandler(ServiceError)
  /\ UNCHANGED <<cfg, envVars, scanVars, resultVars>>

\* What main() does with an exception raised by scan().
ScanHandler(exc) ==
  IF exc = DetectorError
    THEN /\ PutError(SCAN_FAILED)
         /\ pc' = "stop"
    ELSE /\ UNCHANGED errorVars
         /\ pc' = "aborted"

\* scan() raises exc at the given place; main() handles it.
ScanRaise(place, exc) ==
  /\ scanState' = "raised"
  /\ scanRaisedAt' = place
  /\ scanExc' = exc
  /\ putAtRaise' = resultsPut
  /\ ScanHandler(exc)

\* ------------------------------------------------------------------ scan
\* SignatureFound without the existence check on the packaged fallback.
SignatureFound_NoFallbackCheck(cwd, pkg) == cwd \/ TRUE

\* The two-path lookup of signatures.yar.
SignatureFound(cwd, pkg) == cwd \/ pkg

\* main() calls scan(); scan() resolves the signature file.
ScanFindSignatures ==
  /\ pc = "scan"
  /\ scanCalls' = scanCalls + 1
  /\ IF SignatureFound(sigCwd, sigPkg)
       THEN /\ scanState' = "image"
            /\ pc' = "scan_image"
            /\ UNCHANGED <<scanRaisedAt, scanExc, putAtRaise, errorVars>>
       ELSE ScanRaise("signature", DetectorError)
  /\ UNCHANGED <<cfg, envVars, serviceOps, scanRet, matched, consumed,
                 lastStep, lastRec, firstEligible, resultVars>>

\* space = get_address_space(...); yara = malfind.YaraScan(...); matched = []
ScanGetAddressSpace ==
  /\ pc = "scan_image"
  /\ \/ /\ scanState' = "loop"
        /\ pc' = "scan_loop"
        /\ matched' = <<>>
        /\ UNCHANGED <<scanRaisedAt, scanExc, putAtRaise, errorVars>>
     \/ \E exc \in EngineErrors :
          /\ ScanRaise("image", exc)
          /\ UNCHANGED matched
  /\ UNCHANGED <<cfg, envVars, serviceOps, scanCalls, scanRet, consumed,
                 lastStep, lastRec, firstEligible, resultVars>>

\* not o
IsNone(rec) == rec.obj_name = "None"
\* o.obj_name == '_EPROCESS'
IsProcess(rec) == rec.obj_name = "_EPROCESS"
\* IsSelf comparing the parent's id instead of the process's own.
IsSelf_ParentPid(rec) == ToInt(rec.InheritedFromUniqueProcessId) = SelfPid
\* int(o.UniqueProcessId) == int(os.getpid())
IsSelf(rec) == ToInt(rec.UniqueProcessId) = SelfPid
\* InMatched looking at the most recent rule only.
InMatched_LastOnly(rule, list) == Len(list) > 0 /\ list[Len(list)] = rule
\* hit.rule in matched
InMatched(rule, list) == \E i \in 1..Len(list) : list[i] = rule

\* The dict scan() puts on the result queue.
ResultOf(rec) ==
  [rule |-> rec.rule,
   detection |-> MetaGet(rec.rule, "detection"),
   description |-> MetaGet(rec.rule, "description"),
   pid |-> rec.UniqueProcessId,
   ppid |-> rec.InheritedFromUniqueProcessId]

\* Which branch of the loop body a record takes.
Branch(rec, list) ==
  IF IsNone(rec) THEN "skip_none"
  ELSE IF ~IsProcess(rec) THEN "skip_kernel"
  ELSE IF IsSelf(rec) THEN "skip_self"
  ELSE IF InMatched(rec.rule, list) THEN "skip_dup"
  ELSE "emit"

\* The stream's own view of a record: a process context other than the
\* scanner itself.
Eligible(rec) ==
  rec.obj_name = "_EPROCESS" /\ rec.UniqueProcessId.v # SelfPid

\* The stream history kept beside the loop: the record just taken and, per
\* rule, the first eligible record so far.
Observe(rec) ==
  /\ lastRec' = {rec}
  /\ firstEligible' =
       IF Eligible(rec) /\ firstEligible[rec.rule] = {}
         THEN [firstEligible EXCEPT ![rec.rule] = {rec}]
         ELSE firstEligible

\* ScanRecord that records the rule as matched before the self check.
ScanRecord_MarksBeforeSelfCheck ==
  /\ pc = "scan_loop"
  /\ consumed < MaxLen
  /\ \E rec \in Records :
       /\ consumed' = consumed + 1
       /\ lastStep' = Branch(rec, matched)
       /\ Observe(rec)
       /\ IF Branch(rec, matched) = "emit"
            THEN /\ matched' = Append(matched, rec.rule)
                 /\ PutResult(ResultOf(rec))
            ELSE /\ matched' = IF Branch(rec, matched) = "skip_self"
                                  /\ ~InMatched(rec.rule, matched)
                               THEN Append(matched, rec.rule)
                               ELSE matched
                 /\ UNCHANGED resultVars
  /\ UNCHANGED <<pc, cfg, envVars, serviceOps, scanCalls, scanState,
                 scanRaisedAt, scanExc, scanRet, putAtRaise, errorVars>>

\* One iteration of the for loop over yara.calculate().
ScanRecord ==
  /\ pc = "scan_loop"
  /\ consumed < MaxLen
  /\ \E rec \in Records :
       /\ consumed' = consumed + 1
       /\ lastStep' = Branch(rec, matched)
       /\ Observe(rec)
       /\ IF Branch(rec, matched) = "emit"
            THEN /\ matched' = Append(matched, rec.rule)
                 /\ PutResult(ResultOf(rec))
            ELSE UNCHANGED <<matched, resultVars>>
  /\ UNCHANGED <<pc, cfg, envVars, serviceOps, scanCalls, scanState,
                 scanRaisedAt, scanExc, scanRet, putAtRaise, errorVars>>

\* yara.calculate() raises while being iterated.
ScanIterationFails ==
  /\ pc = "scan_loop"
  /\ \E exc \in EngineErrors : ScanRaise("iteration", exc)
  /\ UNCHANGED <<cfg, envVars, serviceOps, scanCalls, scanRet, matched,
                 consumed, lastStep, lastRec, firstEligible, resultVars>>

\* ScanOutcome that reports a match whatever the list holds.
ScanOutcome_AlwaysTrue(list) == Len(list) >= 0
\* ScanOutcome that needs more than one matched rule.
ScanOutcome_MoreThanOne(list) == Len(list) > 1
\* return len(matched) > 0
ScanOutcome(list) == Len(list) > 0

\* The stream is exhausted; scan() returns and main() goes on to teardown.
ScanReturn ==
  /\ pc = "scan_loop"
  /\ scanRet' = ScanOutcome(matched)
  /\ scanState' = "returned"
  /\ pc' = "stop"
  /\ UNCHANGED <<cfg, envVars, serviceOps, scanCalls, scanRaisedAt, scanExc,
                 matched, consumed, lastStep, lastRec, firstEligible,
                 putAtRaise, resultVars, errorVars>>

\* -------------------------------------------------------------- teardown
\* What main() does with an exception raised inside the teardown try.
StopHandler(exc) ==
  IF exc = DetectorError THEN pc' = "done" ELSE pc' = "aborted"

\* ServiceStop that reports a failed stop on the error queue.
ServiceStop_PostsFailure ==
  /\ pc = "stop"
  /\ \E ok \in BOOLEAN :
       /\ Invoke("stop", ok)
       /\ IF ok
            THEN /\ pc' = "delete"
                 /\ UNCHANGED errorVars
            ELSE /\ PutError(SERVICE_NO_START)
                 /\ pc' = "done"
  /\ UNCHANGED <<cfg, envVars, scanVars, resultVars>>

\* service.stop()
ServiceStop ==
  /\ pc = "stop"
  /\ \E ok \in BOOLEAN :
       /\ Invoke("stop", ok)
       /\ IF ok THEN pc' = "delete" ELSE StopHandler(ServiceError)
  /\ UNCHANGED <<cfg, envVars, scanVars, resultVars, errorVars>>

\* ServiceDelete that tries again after a failure.
ServiceDelete_Retry ==
  /\ pc = "delete"
  /\ \E ok \in BOOLEAN :
       /\ Invoke("delete", ok)
       /\ pc' = IF ok THEN "done" ELSE "delete"
  /\ UNCHANGED <<cfg, envVars, scanVars, resultVars, errorVars>>

\* service.delete()
ServiceDelete ==
  /\ pc = "delete"
  /\ \E ok \in BOOLEAN :
       /\ Invoke("delete", ok)
       /\ IF ok THEN pc' = "done" ELSE StopHandler(ServiceError)
  /\ UNCHANGED <<cfg, envVars, scanVars, resultVars, errorVars>>

\* ------------------------------------------------------- queue consumer
\* The caller's thread takes a message off the result queue.
ConsumeResult ==
  /\ queue_results # <<>>
  /\ queue_results' = Tail(queue_results)
  /\ UNCHANGED <<pc, cfg, envVars, serviceOps, scanVars, resultsPut,
                 errorVars>>

\* The caller's thread takes a message off the error queue.
ConsumeError ==
  /\ queue_errors # <<>>
  /\ queue_errors' = Tail(queue_errors)
  /\ UNCHANGED <<pc, cfg, envVars, serviceOps, scanVars, resultVars,
                 errorsPut>>

Next ==
  \/ GetProfileName
  \/ GetDriverPath
  \/ ServiceCreate
  \/ ServiceStart
  \/ ScanFindSignatures
  \/ ScanGetAddressSpace
  \/ ScanRecord
  \/ ScanIterationFails
  \/ ScanReturn
  \/ ServiceStop
  \/ ServiceDelete
  \/ ConsumeResult
  \/ ConsumeError

Spec == Init /\ [][Next]_vars

\* ------------------------------------------------------------ vocabulary
\* main() is over: it returned, or an exception left it.
Terminated == pc \in {"done", "aborted"}
\* The Service method op was invoked / returned normally / raised.
Invoked(op) == \E i \in 1..Len(serviceOps) : serviceOps[i].op = op
Succeeded(op) ==
  \E i \in 1..Len(serviceOps) : serviceOps[i].op = op /\ serviceOps[i].ok
Failed(op) ==
  \E i \in 1..Len(serviceOps) : serviceOps[i].op = op /\ ~serviceOps[i].ok
\* The signature file exists at neither resolution path.
SignatureMissing == ~sigCwd /\ ~sigPkg

\* ---------------------------------------------------------------- claims
\* C1: once create and start both succeeded, stop has been attempted by the
\* time main() is over, however scan() ended.
C1_StopAttemptedAfterStart ==
  (Terminated /\ Succeeded("create") /\ Succeeded("start")) => Invoked("stop")

\* C2: whenever stop was attempted, delete has been attempted too by the time
\* main() is over (also when stop failed), and stop comes before delete.
C2_DeleteAttemptedWithStop ==
  /\ (Terminated /\ Invoked("stop")) => Invoked("delete")
  /\ \A i, j \in 1..Len(serviceOps) :
       (serviceOps[i].op = "stop" /\ serviceOps[j].op = "delete") => i < j

\* C3: when scan() fails mid-iteration after putting k results, at the end of
\* the run the results put are exactly those k and the error queue received
\* exactly one message, SCAN_FAILED.
C3_ResultsKeptOneScanFailed ==
  (Terminated /\ scanRaisedAt = "iteration") =>
    (resultsPut = putAtRaise /\ errorsPut = <<SCAN_FAILED>>)

\* C4 (as stated): with the signature file at neither path no Service method
\* is ever invoked and the run ends with exactly one error message.
C4_HaltsBeforeService ==
  SignatureMissing =>
    (serviceOps = <<>> /\ (Terminated => Len(errorsPut) = 1))

\* C4 (amended): with the signature file at neither path, scan() is reached
\* only after create and start succeeded; it raises at the lookup, before the
\* image is built and before any result is put; exactly one message,
\* SCAN_FAILED, is posted and stop is attempted before main() returns.
C4_MissingSignatureFailsScan ==
  (SignatureMissing /\ scanCalls > 0) =>
    /\ Succeeded("create") /\ Succeeded("start")
    /\ scanRaisedAt = "signature" /\ scanState = "raised"
    /\ resultsPut = <<>>
    /\ errorsPut = <<SCAN_FAILED>>
    /\ pc # "aborted"
    /\ Terminated => Invoked("stop")

C4_Witness ==
  SignatureMissing /\ pc = "done" /\ scanCalls = 1 /\ Invoked("stop")

\* C5: when start fails after create succeeded, the error queue receives
\* exactly one message, SERVICE_NO_START, scan() is never invoked and the
\* result queue receives nothing.
C5_StartFailurePostsOnce ==
  (Succeeded("create") /\ Failed("start")) =>
    /\ errorsPut = <<SERVICE_NO_START>>
    /\ scanCalls = 0
    /\ resultsPut = <<>>
    /\ pc = "done"

C5_Witness == Succeeded("create") /\ Failed("start") /\ pc = "done"

\* C6: when start fails after create succeeded, delete has been attempted by
\* the time main() is over.
C6_DeleteAfterFailedStart ==
  (Terminated /\ Succeeded("create") /\ Failed("start")) => Invoked("delete")

\* C7: when create fails, start, stop and delete are never invoked, scan() is
\* not invoked, and main() returns after posting one error message.
C7_CreateFailureNoTeardown ==
  Failed("create") =>
    /\ ~Invoked("start") /\ ~Invoked("stop") /\ ~Invoked("delete")
    /\ scanCalls = 0
    /\ pc = "done"
    /\ Len(errorsPut) = 1

C7_Witness == Failed("create") /\ pc = "done" /\ Len(serviceOps) = 1

\* C8: no profile: exactly one UNSUPPORTED_WINDOWS and main() halts; profile
\* but no driver: exactly one NO_DRIVER and main() halts.  Either way no
\* Service method and no scan is invoked and no result is put.
C8_NoProfileOrDriverHalts ==
  /\ cfg.profile = "" =>
       /\ errorsPut = <<UNSUPPORTED_WINDOWS>>
       /\ pc = "done" /\ serviceOps = <<>> /\ scanCalls = 0
       /\ resultsPut = <<>>
  /\ (cfg.profile \notin {"", "unset"} /\ cfg.driver = "") =>
       /\ errorsPut = <<NO_DRIVER>>
       /\ pc = "done" /\ serviceOps = <<>> /\ scanCalls = 0
       /\ resultsPut = <<>>

C8_Witness ==
  cfg.profile \notin {"", "unset"} /\ cfg.driver = "" /\ pc = "done"

\* C9: no two results ever put on the result queue share a rule, whatever
\* the consumer has taken off the queue in the meantime.
C9_NoTwoResultsShareRule ==
  \A i, j \in 1..Len(resultsPut) :
    i # j => resultsPut[i].rule # resultsPut[j].rule

C9_Witness ==
  /\ lastStep = "skip_dup" /\ pc = "scan_loop"
  /\ Len(resultsPut) = 2
  /\ Len(queue_results) < Len(resultsPut)

\* C10: no result put on the result queue has the scanner's own pid.
C10_NoResultForSelf ==
  \A i \in 1..Len(resultsPut) : ToInt(resultsPut[i].pid) # SelfPid

C10_Witness == lastStep = "skip_self" /\ Len(resultsPut) >= 1

\* C11: when the match stream is empty, scan() returns False and nothing is
\* put on the result queue.
C11_EmptyStreamReturnsFalse ==
  (scanState = "returned" /\ consumed = 0) =>
    (scanRet = FALSE /\ resultsPut = <<>>)

C11_Witness == scanState = "returned" /\ consumed = 0 /\ pc = "stop"

\* C12: from the moment teardown begins nothing more is put on either queue,
\* whether stop or delete succeeds or fails: the messages put before teardown
\* are the messages of the run.
C12_TeardownPostsNothing ==
  [][(pc \in {"stop", "delete", "done", "aborted"}) =>
       (errorsPut' = errorsPut /\ resultsPut' = resultsPut)]_vars

C12_Witness ==
  /\ pc = "done" /\ (Failed("stop") \/ Failed("delete"))
  /\ errorsPut = <<SCAN_FAILED>>

\* A gating step failed: profile resolution, driver location, service
\* create/start, or the scan.
GatingFailed ==
  \/ cfg.profile = ""
  \/ cfg.driver = ""
  \/ Failed("create")
  \/ Failed("start")
  \/ scanState = "raised"

\* C13: the error queue receives at most one message in a run, and exactly
\* one when a gating step failed.
C13_OneErrorPerFailedRun ==
  /\ Len(errorsPut) <= 1
  /\ (Terminated /\ GatingFailed) => Len(errorsPut) = 1

\* C14: a run past teardown with no message on either queue was a total
\* success without detections; and the error queue has received a message
\* exactly when the run failed.
C14_SilenceMeansSuccess ==
  /\ (pc = "done" /\ Invoked("stop") /\ resultsPut = <<>> /\ errorsPut = <<>>)
       => /\ cfg.profile \notin {"", "unset"}
          /\ cfg.driver \notin {"", "unset"}
          /\ Succeeded("create") /\ Succeeded("start")
          /\ scanState = "returned" /\ scanRet = FALSE
          /\ Succeeded("stop") /\ Succeeded("delete")
  /\ Terminated => (errorsPut # <<>> <=> GatingFailed)

\* C15: main() ends by normal return, either after teardown was attempted or
\* before the service started with an error posted; no failure makes it end
\* abnormally.
C15_TerminatesNormally ==
  Terminated =>
    /\ pc = "done"
    /\ \/ Invoked("stop")
       \/ ~Succeeded("start") /\ Len(errorsPut) = 1

\* C16: when scan() runs the stream to exhaustion it returns True exactly when
\* it put at least one result, and the number of results it put is the number
\* of distinct rules in its matched list.
C16_OutcomeMatchesResults ==
  scanState = "returned" =>
    /\ (scanRet = TRUE) <=> (Len(resultsPut) > 0)
    /\ Len(resultsPut) = Cardinality({matched[i] : i \in 1..Len(matched)})

C16_Witness ==
  scanState = "returned" /\ scanRet = TRUE /\ Len(resultsPut) = 1
  /\ consumed = MaxLen

\* C17: for each rule the one result put carries the pid and ppid of the
\* first record of the stream that is a process context, is not the scanner
\* itself and matched that rule (and there is no result for a rule without
\* such a record).  A record that is not eligible, or whose rule already has
\* its first eligible record, leaves the matched list and the result queue
\* as they were.
C17_FirstEligibleHitReported ==
  /\ [](\A r \in Rules :
         LET hits == {i \in 1..Len(resultsPut) : resultsPut[i].rule = r}
         IN  IF firstEligible[r] = {}
               THEN hits = {} /\ ~InMatched(r, matched)
               ELSE /\ Cardinality(hits) = 1
                    /\ \A i \in hits : \A rec \in firstEligible[r] :
                         /\ resultsPut[i].pid = rec.UniqueProcessId
                         /\ resultsPut[i].ppid =
                              rec.InheritedFromUniqueProcessId)
  /\ [][(consumed' = consumed + 1) =>
         \A rec \in lastRec' :
           (~Eligible(rec) \/ firstEligible[rec.rule] # {}) =>
             /\ matched' = matched
             /\ resultsPut' = resultsPut
             /\ queue_results' = queue_results]_vars

C17_Witness ==
  /\ Len(resultsPut) = 1 /\ Len(matched) = 1 /\ consumed = 3
  /\ \E rec \in lastRec :
       /\ Eligible(rec)
       /\ rec.rule = resultsPut[1].rule
       /\ rec.UniqueProcessId # resultsPut[1].pid

\* The order in which main() calls the Service methods.
ServiceOrder == <<"create", "start", "stop", "delete">>

\* C18: the Service methods invoked in a run are a prefix of create, start,
\* stop, delete, each at most once; start is invoked only after create
\* succeeded, stop and delete only after start succeeded.
C18_ServiceOpsInOrderOnce ==
  /\ Len(serviceOps) <= Len(ServiceOrder)
  /\ \A i \in 1..Len(serviceOps) : serviceOps[i].op = ServiceOrder[i]
  /\ Invoked("start") => Succeeded("create")
  /\ (Invoked("stop") \/ Invoked("delete")) => Succeeded("start")

C18_Witness == Len(serviceOps) = 4 /\ Failed("delete") /\ pc = "done"

\* C19: every put on the result queue happens after start succeeded and
\* before stop is invoked; scan() is invoked at most once, and only after
\* profile resolution, driver location, create and start all succeeded.
C19_ResultsOnlyWhileStarted ==
  /\ [][(resultsPut' # resultsPut) =>
         (Succeeded("start") /\ ~Invoked("stop")
          /\ Succeeded("start")' /\ ~Invoked("stop")')]_vars
  /\ [](/\ scanCalls <= 1
        /\ scanCalls > 0 =>
             /\ cfg.profile \notin {"", "unset"}
             /\ cfg.driver \notin {"", "unset"}
             /\ Succeeded("create") /\ Succeeded("start"))

C19_Witness ==
  Len(resultsPut) >= 1 /\ Invoked("stop") /\ scanCalls = 1
====
